---- MODULE Spec2Model ----
(***************************************************************************)
(* Model of the video assembly engine of src/live.py (NewsVideoCreator)    *)
(* and of the batch runner of src/github_video_generator.py.               *)
(*                                                                         *)
(*   SpecDetect  detect_template_regions, one step per loop iteration      *)
(*   SpecDetectFair  the same, with the loops running on                   *)
(*   SpecSort    get_sorted_items on bounded lists of names                *)
(*   Spec        create_final_video, one step per stage                    *)
(*   SpecBuild   the segment builders, one step per file operation         *)
(*   SpecBatch   DriveVideoGenerator.run, one step per project stage       *)
(*   SpecMeasure the two measuring passes of create_final_video, one step  *)
(*               per loop iteration, in the arithmetic of Python's float   *)
(*                                                                         *)
(* Times are whole ticks, a tick being the length of one frame, except in  *)
(* SpecMeasure, where a time is a binary64 number.  Files are names in a   *)
(* set; a name is a tuple.                                                 *)
(***************************************************************************)
EXTENDS Integers, Sequences, FiniteSets, TLC

VARIABLES
    img,            \* the decoded template.png: [width, height, key, bg, r1, r2]
    dpc,            \* position inside detect_template_regions
    visited,        \* visited
    stack,          \* flood_fill: stack
    region,         \* flood_fill: region
    green_regions,  \* green_regions
    sx,             \* scan loop: x
    sy,             \* scan loop: y
    regs,           \* self.main_x .. self.anchor_h
    detect_ret,     \* what detect_template_regions returned
    items,          \* get_sorted_items: the argument, in discovery order
    sorted_items,   \* get_sorted_items: the returned list
    spc,            \* position of the get_sorted_items call
    mode,           \* self.mode
    pc,             \* position inside create_final_video
    result,         \* how create_final_video ended
    log,            \* the warnings printed
    audio_files,    \* audio_files
    image_folders,  \* image_folders
    pairs,          \* the (audio, folder) pairs the loop has taken: images found, duration
    segments,       \* segments
    temp,           \* the files of self.temp_folder, each with its duration
    out_file,       \* output/final_video.mp4: absent, stale, partial or final
    normalized_transition,  \* normalized_transition, <<>> for None
    transition_duration,    \* transition_duration
    segment_duration,       \* segment_duration
    total_duration,         \* total_duration
    final_concat,   \* the lines of final_concat.txt
    processed_record,       \* processed_record, <<>> for None
    timeline,       \* timeline
    enable_parts,   \* enable_parts, each between(t,start,end) as <<start, end>>
    bpc,            \* position inside a segment builder call
    call,           \* the arguments of the segment builder call under way
    ops,            \* the file operations the call has still to perform
    writes,         \* per segment builder call so far, the names it wrote in temp
    folder_ids,     \* run: folder_ids, read from video.txt
    project,        \* run: i, the project under way
    step,           \* position inside process_project
    first_folder,   \* process_project: first_folder, with the state of its output file
    final_video,    \* process_project: final_video
    results,        \* run: results
    outcomes,       \* per project so far, how each of its steps really ended
    mpc,            \* position inside the measuring passes
    stdout,         \* per segment file, the duration ffprobe prints, in microseconds
    stdout_transition,  \* the same for normalized_transition, 0 for None
    seg_index,      \* the segment the loop under way is at
    f_segment_duration, \* segment_duration as a float
    record_t,       \* the -t argument of prepare_looping_record
    f_current_time, \* current_time as a float
    f_timeline,     \* timeline, with floats
    f_enable_parts  \* enable_parts, with floats

detVars == <<img, dpc, visited, stack, region, green_regions, sx, sy, regs, detect_ret>>

sortVars == <<items, sorted_items, spc>>

pipeVars ==
    <<mode, pc, result, log, audio_files, image_folders, pairs, segments, temp, out_file,
      normalized_transition, transition_duration, segment_duration, total_duration,
      final_concat, processed_record, timeline, enable_parts>>

buildVars == <<bpc, call, ops, writes>>

batchVars == <<folder_ids, project, step, first_folder, final_video, results, outcomes>>

measVars ==
    <<mpc, stdout, stdout_transition, seg_index, f_segment_duration, record_t, f_current_time,
      f_timeline, f_enable_parts>>

otherVars == <<buildVars, batchVars, measVars>>

vars == <<detVars, sortVars, pipeVars, buildVars, batchVars, measVars>>

-----------------------------------------------------------------------------
(* Helpers on sequences and sets *)

Min(a, b) == IF a <= b THEN a ELSE b

Range(s) == {s[k] : k \in 1..Len(s)}

SetMin(S) == CHOOSE m \in S : \A n \in S : m <= n

SetMax(S) == CHOOSE m \in S : \A n \in S : m >= n

-----------------------------------------------------------------------------
(* Region Detector: detect_template_regions *)

\* range(0, height, 5) and range(0, width, 5)
Stride == 5

\* len(region) > 100
MinRegion == 100

\* self.main_x = None ... self.anchor_h = None
None == -1

NoRegions ==
    [main_x |-> None, main_y |-> None, main_w |-> None, main_h |-> None,
     anchor_x |-> None, anchor_y |-> None, anchor_w |-> None, anchor_h |-> None]

\* A rectangle is <<x, y, w, h>>; w = 0 stands for no rectangle.
NoRect == <<0, 0, 0, 0>>

InRect(r, x, y) ==
    /\ r[1] <= x /\ x < r[1] + r[3]
    /\ r[2] <= y /\ y < r[2] + r[4]

\* pixels[x, y] of the image opened from template.png
pixels(im, x, y) ==
    IF InRect(im.r1, x, y) \/ InRect(im.r2, x, y) THEN im.key ELSE im.bg

is_green(pixel) ==
    pixel[2] > 200 /\ pixel[1] < 100 /\ pixel[3] < 100

\* line 77: the seed test of the scan loop
Seed(x, y) == <<x, y>> \notin visited /\ is_green(pixels(img, x, y))

\* a fill that looks at the bounds only
SkipOutside(c) ==
    c[1] < 0 \/ c[2] < 0 \/ c[1] >= img.width \/ c[2] >= img.height

\* line 65: the first continue of flood_fill
Skip(c) ==
    c \in visited \/ c[1] < 0 \/ c[2] < 0 \/ c[1] >= img.width \/ c[2] >= img.height

\* line 71
Neighbours(c) ==
    << <<c[1] + 1, c[2]>>, <<c[1] - 1, c[2]>>, <<c[1], c[2] + 1>>, <<c[1], c[2] - 1>> >>

\* lines 79-80
KeepAll(r) == TRUE

Keep(r) == Len(r) > MinRegion

\* lines 88-96
Box(r) ==
    LET xs == {r[k][1] : k \in 1..Len(r)}
        ys == {r[k][2] : k \in 1..Len(r)}
        x1 == SetMin(xs)
        x2 == SetMax(xs)
        y1 == SetMin(ys)
        y2 == SetMax(ys)
    IN  [x |-> x1, y |-> y1, w |-> x2 - x1, h |-> y2 - y1,
         area |-> (x2 - x1) * (y2 - y1)]

\* line 99: boxes.sort(key=area, reverse=True), a stable sort
RECURSIVE InsertByArea(_, _)
InsertByArea(sorted, b) ==
    IF sorted = <<>> THEN <<b>>
    ELSE IF Head(sorted).area >= b.area
         THEN <<Head(sorted)>> \o InsertByArea(Tail(sorted), b)
         ELSE <<b>> \o sorted

RECURSIVE SortBoxesFrom(_, _)
SortBoxesFrom(boxes, acc) ==
    IF boxes = <<>> THEN acc
    ELSE SortBoxesFrom(Tail(boxes), InsertByArea(acc, Head(boxes)))

SortBoxes(boxes) == SortBoxesFrom(boxes, <<>>)

\* lines 46-54: the image is opened, the scan starts
DetectBegin ==
    /\ dpc = "begin"
    /\ dpc' = "scan"
    /\ visited' = {}
    /\ green_regions' = <<>>
    /\ sx' = 0
    /\ sy' = 0
    /\ UNCHANGED <<img, stack, region, regs, detect_ret, sortVars, pipeVars>>
    /\ UNCHANGED otherVars

\* lines 75-78: one iteration of the inner for loop
ScanStep ==
    /\ dpc = "scan"
    /\ sy < img.height
    /\ IF sx >= img.width
       THEN /\ sx' = 0
            /\ sy' = sy + Stride
            /\ UNCHANGED <<dpc, stack, region>>
       ELSE IF Seed(sx, sy)
            THEN /\ dpc' = "fill"
                 /\ stack' = << <<sx, sy>> >>
                 /\ region' = <<>>
                 /\ UNCHANGED <<sx, sy>>
            ELSE /\ sx' = sx + Stride
                 /\ UNCHANGED <<sy, dpc, stack, region>>
    /\ UNCHANGED <<img, visited, green_regions, regs, detect_ret, sortVars, pipeVars>>
    /\ UNCHANGED otherVars

\* lines 63-71: one iteration of the while loop of flood_fill
FillStep ==
    /\ dpc = "fill"
    /\ stack # <<>>
    /\ LET c == stack[Len(stack)]
           rest == SubSeq(stack, 1, Len(stack) - 1)
       IN  IF Skip(c)
           THEN /\ stack' = rest
                /\ UNCHANGED <<visited, region>>
           ELSE IF ~is_green(pixels(img, c[1], c[2]))
                THEN /\ stack' = rest
                     /\ UNCHANGED <<visited, region>>
                ELSE /\ visited' = visited \cup {c}
                     /\ region' = Append(region, c)
                     /\ stack' = rest \o Neighbours(c)
    /\ UNCHANGED <<img, dpc, green_regions, sx, sy, regs, detect_ret, sortVars, pipeVars>>
    /\ UNCHANGED otherVars

\* lines 72, 78-80: flood_fill returns, the region is kept or dropped
FillReturn ==
    /\ dpc = "fill"
    /\ stack = <<>>
    /\ green_regions' = IF Keep(region) THEN Append(green_regions, region)
                        ELSE green_regions
    /\ region' = <<>>
    /\ sx' = sx + Stride
    /\ dpc' = "scan"
    /\ UNCHANGED <<img, visited, stack, sy, regs, detect_ret, sortVars, pipeVars>>
    /\ UNCHANGED otherVars

\* lines 82-117: the scan is over
DetectFinish ==
    /\ dpc = "scan"
    /\ sy >= img.height
    /\ dpc' = "done"
    /\ IF Len(green_regions) < 2
       THEN /\ detect_ret' = "False"
            /\ UNCHANGED regs
       ELSE LET boxes == SortBoxes([k \in 1..Len(green_regions) |-> Box(green_regions[k])])
            IN  /\ regs' = [main_x |-> boxes[1].x, main_y |-> boxes[1].y,
                            main_w |-> boxes[1].w, main_h |-> boxes[1].h,
                            anchor_x |-> boxes[2].x, anchor_y |-> boxes[2].y,
                            anchor_w |-> boxes[2].w, anchor_h |-> boxes[2].h]
                /\ detect_ret' = "True"
    /\ UNCHANGED <<img, visited, stack, region, green_regions, sx, sy, sortVars, pipeVars>>
    /\ UNCHANGED otherVars

DetectStep == DetectBegin \/ ScanStep \/ FillStep \/ FillReturn \/ DetectFinish

-----------------------------------------------------------------------------
(* Template images *)

ImgW == 26

ImgH == 12

Palettes ==
    { [key |-> <<0, 255, 0>>, bg |-> <<0, 200, 0>>],
      [key |-> <<99, 201, 99>>, bg |-> <<100, 255, 100>>] }

FirstRects ==
    { NoRect, <<0, 0, 12, 10>>, <<1, 1, 12, 10>>, <<0, 0, 10, 10>>, <<0, 1, 26, 4>> }

SecondRects ==
    { NoRect, <<13, 0, 12, 10>>, <<12, 0, 12, 10>>, <<14, 1, 11, 10>>, <<14, 0, 11, 9>>,
      <<0, 6, 26, 6>> }

Templates ==
    { [width |-> ImgW, height |-> ImgH, key |-> p.key, bg |-> p.bg, r1 |-> a, r2 |-> b] :
        p \in Palettes, a \in FirstRects, b \in SecondRects }

\* The templates create_final_video is run on: one with two regions, one with one.
PipelineTemplates ==
    { [width |-> ImgW, height |-> ImgH, key |-> <<0, 255, 0>>, bg |-> <<0, 200, 0>>,
       r1 |-> <<0, 0, 12, 10>>, r2 |-> b] : b \in {NoRect, <<14, 1, 11, 10>>} }

-----------------------------------------------------------------------------
(* Asset Enumerator: get_sorted_items *)

DigitChars == <<"0", "1", "2", "3", "4", "5", "6", "7", "8", "9">>

IsDigit(c) == \E k \in 1..Len(DigitChars) : DigitChars[k] = c

DigitVal(c) == (CHOOSE k \in 1..Len(DigitChars) : DigitChars[k] = c) - 1

\* int(match.group(1)): the digits from position k on, as long as they last
RECURSIVE ScanInt(_, _, _)
ScanInt(name, k, acc) ==
    IF k <= Len(name) /\ IsDigit(name[k])
    THEN ScanInt(name, k + 1, acc * 10 + DigitVal(name[k]))
    ELSE acc

\* a key that reads one digit only, as r'(\d)' would
extract_number_one_digit(name) ==
    IF \E k \in 1..Len(name) : IsDigit(name[k])
    THEN DigitVal(name[SetMin({k \in 1..Len(name) : IsDigit(name[k])})])
    ELSE 0

\* re.search(r'(\d+)', item.name), int of the match, 0 without a match
extract_number(name) ==
    IF \E k \in 1..Len(name) : IsDigit(name[k])
    THEN ScanInt(name, SetMin({k \in 1..Len(name) : IsDigit(name[k])}), 0)
    ELSE 0

\* sorted(items, key=extract_number): stable, ascending
RECURSIVE InsertByKey(_, _)
InsertByKey(sorted, it) ==
    IF sorted = <<>> THEN <<it>>
    ELSE IF extract_number(Head(sorted)) <= extract_number(it)
         THEN <<Head(sorted)>> \o InsertByKey(Tail(sorted), it)
         ELSE <<it>> \o sorted

RECURSIVE SortFrom(_, _)
SortFrom(its, acc) ==
    IF its = <<>> THEN acc
    ELSE SortFrom(Tail(its), InsertByKey(acc, Head(its)))

get_sorted_items(its) == SortFrom(its, <<>>)

GetSortedItems ==
    /\ spc = "call"
    /\ sorted_items' = get_sorted_items(items)
    /\ spc' = "returned"
    /\ UNCHANGED <<items, detVars, pipeVars>>
    /\ UNCHANGED otherVars

\* The names the enumerator is given
MaxItems == 3

Seg1 == <<"s", "e", "g", "1">>

Seg2 == <<"s", "e", "g", "2">>

Seg10 == <<"s", "e", "g", "1", "0">>

NamePool ==
    { Seg1, Seg2, Seg10,
      <<"i", "n", "t", "r", "o">>,
      <<"x", "0", "2">>,
      <<"a", "2", "b", "7">>,
      <<"n", ".", "m", "p", "3">> }

Listings ==
    UNION { {l \in [1..n -> NamePool] : \A j, k \in 1..n : j # k => l[j] # l[k]} :
            n \in 0..MaxItems }

-----------------------------------------------------------------------------
(* Files of the temp folder *)

\* A file name is <<kind, key, index>>; temp maps each file present to its duration.
EmptyDir == <<>>

Exists(t, f) == f \in DOMAIN t

\* ffmpeg -y writes or overwrites f
Write(t, f, d) == (f :> d) @@ t

\* unlink of each file of S
Unlink(t, S) == [f \in (DOMAIN t) \ S |-> t[f]]

\* A failed ffmpeg call leaves no output file or a partial one.
FailedWrite(t, f) == {t, Write(t, f, 0)}

\* ffprobe format=duration of a file
get_video_duration(f) == temp[f]

\* audio_path.stem
Stem(name) ==
    LET dots == {k \in 1..Len(name) : name[k] = "."}
    IN  IF dots = {} THEN name ELSE SubSeq(name, 1, SetMax(dots) - 1)

NormalizedTransition == <<"normalized_transition", <<>>, 0>>

SegmentOutput(i) == <<"segment", <<>>, i>>

FinalConcat == <<"final_concat", <<>>, 0>>

BaseOutput == <<"base_video", <<>>, 0>>

ProcessedRecord == <<"processed_record", <<>>, 0>>

-----------------------------------------------------------------------------
(* Asset Enumerator inside create_final_video *)

AudioName(k) == <<"a", DigitChars[k + 1], ".", "m", "p", "3">>

FolderName(k) == <<"s", "e", "g", DigitChars[k + 1]>>

\* glob and iterdir list in no particular order; here the last name comes first
get_audio_files(n) == get_sorted_items([k \in 1..n |-> AudioName(n + 1 - k)])

get_image_folders(n) == get_sorted_items([k \in 1..n |-> FolderName(n + 1 - k)])

\* line 531
Mismatch(a, f) == a # f

\* a pairing that loses the last pair
ZipShort(xs, ys) == [k \in 1..(Min(Len(xs), Len(ys)) - 1) |-> <<xs[k], ys[k]>>]

\* line 542: zip(audio_files, image_folders)
Zip(xs, ys) == [k \in 1..Min(Len(xs), Len(ys)) |-> <<xs[k], ys[k]>>]

-----------------------------------------------------------------------------
(* Segment Builder: what a failing call leaves in the temp folder *)

\* id(images) of the call, as the digits of the file name
ImagesIds == {<<"1">>, <<"2">>}

\* id(self)
SelfId == <<"0">>

Clips(kind, key, n) == {<<kind, key, j>> : j \in 0..(n - 1)}

Blank(S) == [f \in S |-> 0]

\* create_segment_video_simple raising at the probe, at clip j, at the concat or at the mux
SimpleFailures(audio, n, output_path) ==
    LET stem == Stem(audio)
        all == Blank(Clips("img", stem, n) \cup {<<"concat", stem, 0>>})
    IN  {EmptyDir}
        \cup UNION { FailedWrite(Blank(Clips("img", stem, j)), <<"img", stem, j>>) :
                       j \in 0..(n - 1) }
        \cup FailedWrite(all, <<"temp_video", stem, 0>>)
        \cup FailedWrite(Write(all, <<"temp_video", stem, 0>>, 0), output_path)

\* create_segment_video_template raising at the probe, inside create_slideshow_for_main,
\* in loop_anchor, in composite_template_part or at the mux
TemplateFailures(n, output_path) ==
    UNION { LET slideshow == <<"slideshow", key, 0>>
                anchor_loop == <<"anchor_loop", SelfId, 0>>
                template_video == <<"template_part", SelfId, 0>>
                clips == Clips("clip", key, n)
                joined == IF n = 1 THEN Blank(clips)
                          ELSE Blank(clips \cup {<<"clips_concat", key, 0>>})
            IN  {EmptyDir}
                \cup UNION { FailedWrite(Blank(Clips("clip", key, j)), <<"clip", key, j>>) :
                               j \in 0..(n - 1) }
                \cup FailedWrite(joined, slideshow)
                \cup FailedWrite(Blank({slideshow}), anchor_loop)
                \cup FailedWrite(Blank({slideshow, anchor_loop}), template_video)
                \cup FailedWrite(Blank({slideshow, anchor_loop, template_video}), output_path)
          : key \in ImagesIds }

\* lines 557-560
SegmentFailures(audio, n, output_path) ==
    IF mode = "video" THEN SimpleFailures(audio, n, output_path)
    ELSE TemplateFailures(n, output_path)

-----------------------------------------------------------------------------
(* Effect Filter Builder and the file operations of a segment builder call *)

\* lines 26-27, 232: the frame size
FrameW == 1920

FrameH == 1080

\* int(x * 1.025) as Python computes it in doubles, on the sizes the calls use
ScaleUp(x) ==
    CASE x = 1920 -> 1967
      [] x = 1080 -> 1107
      [] OTHER -> (x * 1025) \div 1000

\* The descriptor: the scale before zoompan, zoompan's d and s, the final scale.
\* duration is the quotient <<d, n>>; a tick is one frame, so int(duration*30) is d div n.
create_image_effect_filter(duration, target_w, target_h) ==
    [scale |-> <<ScaleUp(target_w), ScaleUp(target_h)>>,
     d |-> duration[1] \div duration[2],
     s |-> <<target_w, target_h>>,
     out |-> <<target_w, target_h>>]

NoFilter == [scale |-> <<0, 0>>, d |-> 0, s |-> <<0, 0>>, out |-> <<0, 0>>]

\* One operation on the temp folder: its kind, the file it writes or removes, the
\* intermediates it is given, its -t argument as the quotient <<d, n>>, its -vf.
Op(kind, f, ins, t, vf) == [op |-> kind, f |-> f, ins |-> ins, t |-> t, vf |-> vf]

Unlinks(fs) == [k \in 1..Len(fs) |-> Op("unlink", fs[k], <<>>, <<0, 1>>, NoFilter)]

Probes(fs) == [k \in 1..Len(fs) |-> Op("probe", fs[k], <<fs[k]>>, <<0, 1>>, NoFilter)]

\* lines 223-292
SimpleOps(audio_path, n, audio_duration, output_path) ==
    LET stem == Stem(audio_path)
        duration_per_image == <<audio_duration, n>>
        temp_videos == [i \in 1..n |-> <<"img", stem, i - 1>>]
        concat_file == <<"concat", stem, 0>>
        temp_video == <<"temp_video", stem, 0>>
    IN  [i \in 1..n |->
            Op("clip", temp_videos[i], <<>>, duration_per_image,
               create_image_effect_filter(duration_per_image, FrameW, FrameH))]
        \o << Op("list", concat_file, temp_videos, <<0, 1>>, NoFilter),
               Op("concat", temp_video, <<concat_file>> \o temp_videos, <<0, 1>>, NoFilter),
               Op("mux", output_path, <<temp_video>>, <<audio_duration, 1>>, NoFilter) >>
        \o Unlinks(<<concat_file, temp_video>> \o temp_videos)

\* lines 339-399
SlideshowOps(images_id, n, duration, output) ==
    LET img_duration == <<duration, n>>
        clips == [i \in 1..n |-> <<"clip", images_id, i - 1>>]
        concat_file == <<"clips_concat", images_id, 0>>
    IN  [i \in 1..n |->
            Op("clip", clips[i], <<>>, img_duration,
               create_image_effect_filter(img_duration, regs.main_w, regs.main_h))]
        \o (IF n = 1
             THEN << Op("copy", output, <<clips[1]>>, <<0, 1>>, NoFilter) >>
             ELSE << Op("list", concat_file, clips, <<0, 1>>, NoFilter),
                     Op("concat", output, <<concat_file>> \o clips, <<0, 1>>, NoFilter),
                     Op("unlink", concat_file, <<>>, <<0, 1>>, NoFilter) >>)
        \o Unlinks(clips)

\* lines 302-335 with create_slideshow_for_main, loop_anchor, composite_template_part
TemplateOps(images_id, n, audio_duration, output_path) ==
    LET slideshow == <<"slideshow", images_id, 0>>
        anchor_loop == <<"anchor_loop", SelfId, 0>>
        template_video == <<"template_part", SelfId, 0>>
    IN  SlideshowOps(images_id, n, audio_duration, slideshow)
        \o << Op("loop", anchor_loop, <<>>, <<audio_duration, 1>>, NoFilter),
               Op("composite", template_video, <<slideshow, anchor_loop>>,
                  <<audio_duration, 1>>, NoFilter),
               Op("mux", output_path, <<template_video>>, <<audio_duration, 1>>, NoFilter) >>
        \o Unlinks(<<slideshow, anchor_loop, template_video>>)

\* lines 557-560
SegmentOps(m, audio, images_id, n, audio_duration, segment_output) ==
    IF m = "video" THEN SimpleOps(audio, n, audio_duration, segment_output)
    ELSE TemplateOps(images_id, n, audio_duration, segment_output)

\* a clip that ends at the last whole frame before -t
ClipFramesFloor(t) == t[1] \div t[2]

\* -t d/n on a looped input at the frame rate: the frames whose time is below d/n
ClipFrames(t) == (t[1] + t[2] - 1) \div t[2]

\* The intermediates an operation opens; unlink and rename need their file.
Reads(o) ==
    IF o.op \in {"unlink", "rename"} THEN {o.f}
    ELSE IF o.op = "list" THEN {}
    ELSE Range(o.ins)

RECURSIVE SumLengths(_, _)
SumLengths(t, fs) == IF fs = <<>> THEN 0 ELSE t[Head(fs)] + SumLengths(t, Tail(fs))

\* The length of the file an operation writes. The concat demuxer plays the files
\* of its list one after the other; -shortest ends the output with its shorter input.
Length(t, o) ==
    CASE o.op = "list" -> 0
      [] o.op = "concat" -> SumLengths(t, Tail(o.ins))
      [] o.op = "copy" -> t[o.ins[1]]
      [] o.op = "mux" -> Min(t[o.ins[1]], o.t[1])
      [] OTHER -> ClipFrames(o.t)

\* FileNotFoundError, or ffmpeg failing on a missing input
Ready(t, o) == Reads(o) \subseteq DOMAIN t

Apply(t, o) ==
    IF o.op \in {"unlink", "rename"} THEN Unlink(t, {o.f})
    ELSE IF o.op \in {"probe", "read"} THEN t
    ELSE Write(t, o.f, Length(t, o))

\* The operations in order, up to the first that finds a file missing.
RECURSIVE RunOps(_, _)
RunOps(t, os) ==
    IF os = <<>> THEN [dir |-> t, ok |-> TRUE]
    ELSE IF ~Ready(t, Head(os)) THEN [dir |-> t, ok |-> FALSE]
    ELSE RunOps(Apply(t, Head(os)), Tail(os))

-----------------------------------------------------------------------------
(* Timeline Assembler and Overlay Scheduler *)

\* a check that never fires
NeverNoSegments(segs) == FALSE

\* line 566
NoSegmentsCreated(segs) == segs = <<>>

\* lines 572-574
RECURSIVE SumDurations(_)
SumDurations(segs) ==
    IF segs = <<>> THEN 0
    ELSE get_video_duration(Head(segs)) + SumDurations(Tail(segs))

\* a transition counted after every segment
TotalDurationPerSegment(seg_total, td, n, tr) ==
    IF tr # <<>> THEN seg_total + td * n ELSE seg_total

\* lines 576-578
TotalDuration(seg_total, td, n, tr) ==
    IF tr # <<>> THEN seg_total + td * (n - 1) ELSE seg_total

\* a list with the transition after every segment, the last one too
RECURSIVE ConcatLinesTrailing(_, _, _)
ConcatLinesTrailing(segs, i, tr) ==
    IF i > Len(segs) THEN <<>>
    ELSE (IF tr # <<>> THEN <<segs[i], tr>> ELSE <<segs[i]>>)
         \o ConcatLinesTrailing(segs, i + 1, tr)

\* lines 588-593
RECURSIVE ConcatLines(_, _, _)
ConcatLines(segs, i, tr) ==
    IF i > Len(segs) THEN <<>>
    ELSE (IF i < Len(segs) /\ tr # <<>> THEN <<segs[i], tr>> ELSE <<segs[i]>>)
         \o ConcatLines(segs, i + 1, tr)

\* lines 632-643: a span is <<start, end, show>>
RECURSIVE TimelineLoop(_, _, _)
TimelineLoop(i, current_time, acc) ==
    IF i > Len(segments) THEN acc
    ELSE LET seg_duration == get_video_duration(segments[i])
             shown == Append(acc, <<current_time, current_time + seg_duration, TRUE>>)
             after == current_time + seg_duration
         IN  IF i < Len(segments) /\ normalized_transition # <<>>
             THEN TimelineLoop(i + 1, after + transition_duration,
                               Append(shown, <<after, after + transition_duration, FALSE>>))
             ELSE TimelineLoop(i + 1, after, shown)

\* lines 646-649
EnableParts(tl) ==
    LET shown == SelectSeq(tl, LAMBDA span : span[3])
    IN  [k \in 1..Len(shown) |-> <<shown[k][1], shown[k][2]>>]

\* ffmpeg's between(x, min, max): 1 if min <= x <= max, else 0
Between(t, lo, hi) == IF lo <= t /\ t <= hi THEN 1 ELSE 0

\* line 651: '+'.join(enable_parts), evaluated at time t
RECURSIVE EnableExpr(_, _)
EnableExpr(parts, t) ==
    IF parts = <<>> THEN 0
    ELSE Between(t, Head(parts)[1], Head(parts)[2]) + EnableExpr(Tail(parts), t)

\* line 657: overlay=...:enable='...' shows the clip where the expression is not zero
Enabled(t) == EnableExpr(enable_parts, t) # 0

-----------------------------------------------------------------------------
(* create_final_video *)

MaxAudio == 5

MaxFolders == 3

MaxImages == 2

Durations == {8, 10, 12}

TransitionDurations == {2}

\* a return statement of create_final_video
Return(kind) ==
    /\ pc' = "done"
    /\ result' = kind
    /\ UNCHANGED <<mode, log, audio_files, image_folders, pairs, segments, temp, out_file,
                   normalized_transition, transition_duration, segment_duration,
                   total_duration, final_concat, processed_record, timeline, enable_parts>>

\* an exception of an external call leaves create_final_video at once
Raise(t, o) ==
    /\ pc' = "done"
    /\ result' = "ToolFailure"
    /\ temp' = t
    /\ out_file' = o
    /\ UNCHANGED <<mode, log, audio_files, image_folders, pairs, segments,
                   normalized_transition, transition_duration, segment_duration,
                   total_duration, final_concat, processed_record, timeline, enable_parts>>

\* a FileNotFoundError, or an ffmpeg call failing on a missing input, leaves
\* create_final_video as any other exception does
RaiseMissing(t, o) ==
    /\ pc' = "done"
    /\ result' = "FileNotFound"
    /\ temp' = t
    /\ out_file' = o
    /\ UNCHANGED <<mode, log, audio_files, image_folders, pairs, segments,
                   normalized_transition, transition_duration, segment_duration,
                   total_duration, final_concat, processed_record, timeline, enable_parts>>

\* lines 572-574, 586-613: the probes, final_concat.txt and the base video
AssembleOps(segs, tr) ==
    Probes(segs)
    \o << Op("list", FinalConcat, ConcatLines(segs, 1, tr), <<0, 1>>, NoFilter),
           Op("concat", BaseOutput, <<FinalConcat>> \o ConcatLines(segs, 1, tr),
              <<0, 1>>, NoFilter) >>

\* lines 634-635, 653-666, 674-687: what the final composition opens
ComposeInputs(m, record, segs) ==
    IF record # <<>> /\ m = "with_template"
    THEN Probes(segs) \o << Op("read", BaseOutput, <<BaseOutput, record>>, <<0, 1>>, NoFilter) >>
    ELSE IF record # <<>>
         THEN << Op("read", BaseOutput, <<BaseOutput, record>>, <<0, 1>>, NoFilter) >>
         ELSE <<>>

\* a composition that removes the segments with the base video
ComposeRemovalsWithSegments(m, record, segs) ==
    IF record # <<>> THEN Unlinks(<<record, BaseOutput>> \o segs)
    ELSE << Op("rename", BaseOutput, <<>>, <<0, 1>>, NoFilter) >>

\* lines 667-668, 688-689, 692: what the final composition takes out of temp
ComposeRemovals(m, record, segs) ==
    IF record # <<>> THEN Unlinks(<<record, BaseOutput>>)
    ELSE << Op("rename", BaseOutput, <<>>, <<0, 1>>, NoFilter) >>

\* a cleanup that forgets the transition
CleanupOpsKeepTransition(segs, tr) == Unlinks(segs \o <<FinalConcat>>)

\* lines 696-700
CleanupOps(segs, tr) ==
    Unlinks(segs \o <<FinalConcat>> \o (IF tr # <<>> THEN <<tr>> ELSE <<>>))

\* lines 511-521: the requirements of the mode
CheckMode ==
    /\ pc = "start"
    /\ IF mode = "with_template"
       THEN \E template_exists, anchor_exists \in BOOLEAN :
               IF ~template_exists
               THEN Return("TemplateMissing") /\ UNCHANGED <<img, dpc>>
               ELSE IF ~anchor_exists
                    THEN Return("AnchorMissing") /\ UNCHANGED <<img, dpc>>
                    ELSE /\ pc' = "detect"
                         /\ img' \in PipelineTemplates
                         /\ dpc' = "begin"
                         /\ UNCHANGED <<mode, result, log, audio_files, image_folders,
                                        pairs, segments, temp, out_file,
                                        normalized_transition, transition_duration,
                                        segment_duration, total_duration, final_concat,
                                        processed_record, timeline, enable_parts>>
       ELSE /\ pc' = "assets"
            /\ UNCHANGED <<img, dpc, mode, result, log, audio_files, image_folders,
                           pairs, segments, temp, out_file, normalized_transition,
                           transition_duration, segment_duration, total_duration,
                           final_concat, processed_record, timeline, enable_parts>>
    /\ UNCHANGED <<visited, stack, region, green_regions, sx, sy, regs, detect_ret, sortVars>>
    /\ UNCHANGED otherVars

\* a test that lets every detection pass
DetectionNeverFailed(ret) == FALSE

\* line 521: if not self.detect_template_regions()
DetectionFailed(ret) == ret = "False"

\* lines 521-522: detect_template_regions has returned
AfterDetect ==
    /\ pc = "detect"
    /\ dpc = "done"
    /\ dpc' = "returned"
    /\ visited' = {}
    /\ green_regions' = <<>>
    /\ sx' = 0
    /\ sy' = 0
    /\ IF DetectionFailed(detect_ret)
       THEN Return("RegionDetectionFailed")
       ELSE /\ pc' = "assets"
            /\ UNCHANGED <<mode, result, log, audio_files, image_folders, pairs, segments,
                           temp, out_file, normalized_transition, transition_duration,
                           segment_duration, total_duration, final_concat,
                           processed_record, timeline, enable_parts>>
    /\ UNCHANGED <<img, stack, region, regs, detect_ret, sortVars>>
    /\ UNCHANGED otherVars

\* lines 524-532
ListAssets ==
    /\ pc = "assets"
    /\ \E a \in 0..MaxAudio, f \in 0..MaxFolders :
          /\ audio_files' = get_audio_files(a)
          /\ image_folders' = get_image_folders(f)
          /\ IF a = 0
             THEN /\ pc' = "done"
                  /\ result' = "NoAudio"
                  /\ log' = log
             ELSE /\ pc' = "transition"
                  /\ result' = result
                  /\ log' = IF Mismatch(a, f) THEN log \cup {"mismatch"} ELSE log
    /\ UNCHANGED <<mode, pairs, segments, temp, out_file, normalized_transition,
                   transition_duration, segment_duration, total_duration, final_concat,
                   processed_record, timeline, enable_parts, detVars, sortVars>>
    /\ UNCHANGED otherVars

\* lines 534-538 with normalize_transition
NormalizeTransition ==
    /\ pc = "transition"
    /\ \/ /\ pc' = "segments"
          /\ normalized_transition' = <<>>
          /\ transition_duration' = 0
          /\ UNCHANGED <<result, temp, out_file>>
       \/ \E td \in TransitionDurations :
             /\ pc' = "segments"
             /\ normalized_transition' = NormalizedTransition
             /\ temp' = Write(temp, NormalizedTransition, td)
             /\ transition_duration' = td
             /\ UNCHANGED <<result, out_file>>
       \/ /\ \E t \in FailedWrite(temp, NormalizedTransition) : Raise(t, out_file)
       \/ /\ \E td \in TransitionDurations :
                Raise(Write(temp, NormalizedTransition, td), out_file)
    /\ UNCHANGED <<mode, log, audio_files, image_folders, pairs, segments,
                   segment_duration, total_duration, final_concat, processed_record,
                   timeline, enable_parts, detVars, sortVars>>
    /\ UNCHANGED otherVars

\* lines 542-564: one iteration of the loop over the pairs
CreateSegment ==
    /\ pc = "segments"
    /\ Len(pairs) < Len(Zip(audio_files, image_folders))
    /\ LET i == Len(pairs) + 1
           audio == Zip(audio_files, image_folders)[i][1]
           folder == Zip(audio_files, image_folders)[i][2]
           segment_output == SegmentOutput(i)
       IN  \E n \in 0..MaxImages :
              \/ /\ n = 0
                 /\ pairs' = Append(pairs, [audio |-> audio, folder |-> folder,
                                            has_images |-> FALSE, dur |-> 0])
                 /\ log' = log \cup {"skipped"}
                 /\ UNCHANGED <<pc, result, segments, temp, out_file>>
              \/ /\ n > 0
                 /\ \E d \in Durations, images_id \in ImagesIds :
                       LET r == RunOps(temp, SegmentOps(mode, audio, images_id, n, d,
                                                        segment_output))
                       IN  IF r.ok
                           THEN /\ pairs' = Append(pairs,
                                                   [audio |-> audio, folder |-> folder,
                                                    has_images |-> TRUE, dur |-> d])
                                /\ temp' = r.dir
                                /\ segments' = Append(segments, segment_output)
                                /\ UNCHANGED <<pc, result, log, out_file>>
                           ELSE RaiseMissing(r.dir, out_file)
              \/ /\ n > 0
                 /\ \E left \in SegmentFailures(audio, n, segment_output) :
                       Raise(left @@ temp, out_file)
    /\ UNCHANGED <<mode, audio_files, image_folders, normalized_transition,
                   transition_duration, segment_duration, total_duration, final_concat,
                   processed_record, timeline, enable_parts, detVars, sortVars>>
    /\ UNCHANGED otherVars

\* lines 566-613: the loop is over; durations, final_concat.txt and the base video
Assemble ==
    /\ pc = "segments"
    /\ Len(pairs) = Len(Zip(audio_files, image_folders))
    /\ IF NoSegmentsCreated(segments)
       THEN Return("NoSegments")
       ELSE LET r == RunOps(temp, AssembleOps(segments, normalized_transition))
            IN  IF ~r.ok
                THEN RaiseMissing(r.dir, out_file)
                ELSE \/ /\ segment_duration' = SumDurations(segments)
                        /\ total_duration' =
                              TotalDuration(segment_duration', transition_duration,
                                            Len(segments), normalized_transition)
                        /\ final_concat' = ConcatLines(segments, 1, normalized_transition)
                        /\ temp' = r.dir
                        /\ pc' = "record"
                        /\ UNCHANGED <<mode, result, log, audio_files, image_folders,
                                       pairs, segments, out_file, normalized_transition,
                                       transition_duration, processed_record, timeline,
                                       enable_parts>>
                     \/ Raise(temp, out_file)
                     \/ \E t \in FailedWrite(Write(temp, FinalConcat, 0), BaseOutput) :
                           Raise(t, out_file)
    /\ UNCHANGED <<detVars, sortVars>>
    /\ UNCHANGED otherVars

\* the length of record.mp4
RecordDurations == {3, 7}

\* a foreground clip prepared for the whole video in either mode
RecordDurationTotal(m, seg, total) == total

\* lines 617-622: the argument of prepare_looping_record
RecordDuration(m, seg, total) == IF m = "with_template" THEN seg ELSE total

\* line 479: int(total_duration / record_duration) + 2
LoopTimes(total, record_duration) == (total \div record_duration) + 2

\* lines 486-499: -stream_loop n plays the clip n + 1 times, -t ends it at total
LoopedLength(total, record_duration) ==
    Min((LoopTimes(total, record_duration) + 1) * record_duration, total)

\* lines 615-622 with prepare_looping_record
PrepareRecord ==
    /\ pc = "record"
    /\ \/ /\ pc' = "final"
          /\ processed_record' = <<>>
          /\ UNCHANGED <<result, temp, out_file>>
       \/ /\ pc' = "final"
          /\ processed_record' = ProcessedRecord
          /\ \E record_duration \in RecordDurations :
                temp' = Write(temp, ProcessedRecord,
                              LoopedLength(RecordDuration(mode, segment_duration,
                                                          total_duration),
                                           record_duration))
          /\ UNCHANGED <<result, out_file>>
       \/ \E t \in FailedWrite(temp, ProcessedRecord) : Raise(t, out_file)
    /\ UNCHANGED <<mode, log, audio_files, image_folders, pairs, segments,
                   normalized_transition, transition_duration, segment_duration,
                   total_duration, final_concat, timeline, enable_parts,
                   detVars, sortVars>>
    /\ UNCHANGED otherVars

\* lines 624-692: the final composition
Compose ==
    /\ pc = "final"
    /\ LET opened == RunOps(temp, ComposeInputs(mode, processed_record, segments))
           removed == RunOps(temp, ComposeRemovals(mode, processed_record, segments))
           written == IF processed_record # <<>> THEN "final" ELSE out_file
       IN  IF ~opened.ok
           THEN RaiseMissing(temp, out_file) /\ UNCHANGED <<timeline, enable_parts>>
           ELSE \/ /\ IF processed_record # <<>> /\ mode = "with_template"
                       THEN /\ timeline' = TimelineLoop(1, 0, <<>>)
                            /\ enable_parts' = EnableParts(timeline')
                       ELSE UNCHANGED <<timeline, enable_parts>>
                   /\ IF removed.ok
                      THEN /\ out_file' = "final"
                           /\ temp' = removed.dir
                           /\ pc' = "cleanup"
                           /\ UNCHANGED result
                      ELSE /\ out_file' = written
                           /\ temp' = removed.dir
                           /\ pc' = "done"
                           /\ result' = "FileNotFound"
                \/ /\ processed_record # <<>>
                   /\ \E o \in {out_file, "partial"} : Raise(temp, o)
                   /\ UNCHANGED <<timeline, enable_parts>>
    /\ UNCHANGED <<mode, log, audio_files, image_folders, pairs, segments,
                   normalized_transition, transition_duration, segment_duration,
                   total_duration, final_concat, processed_record, detVars, sortVars>>
    /\ UNCHANGED otherVars

\* lines 694-711
Cleanup ==
    /\ pc = "cleanup"
    /\ LET r == RunOps(temp, CleanupOps(segments, normalized_transition))
       IN  /\ temp' = r.dir
           /\ pc' = "done"
           /\ result' = IF r.ok THEN "Success" ELSE "FileNotFound"
    /\ UNCHANGED <<mode, log, audio_files, image_folders, pairs, segments, out_file,
                   normalized_transition, transition_duration, segment_duration,
                   total_duration, final_concat, processed_record, timeline,
                   enable_parts, detVars, sortVars>>
    /\ UNCHANGED otherVars

-----------------------------------------------------------------------------
(* A segment builder call, one file operation at a time *)

MaxCalls == 2

\* the length of an audio track, in frames
AudioDurations == {7, 8, 10}

WavName(k) == <<"a", DigitChars[k + 1], ".", "w", "a", "v">>

\* get_audio_files globs one extension after the other: tracks of one format, or
\* a1.mp3 with a1.wav among them
BuildListings ==
    { get_audio_files(MaxCalls),
      get_sorted_items([k \in 1..(MaxCalls - 1) |-> AudioName(k)] \o <<WavName(1)>>) }

\* what detect_template_regions sets on the template of two regions
BuildRegions ==
    [main_x |-> 0, main_y |-> 0, main_w |-> 11, main_h |-> 9,
     anchor_x |-> 14, anchor_y |-> 1, anchor_w |-> 10, anchor_h |-> 9]

\* The file an operation creates or overwrites in temp, if any.
Written(o) ==
    IF o.op \in {"clip", "list", "concat", "copy", "mux", "loop", "composite"}
    THEN {o.f} ELSE {}

\* lines 547-560: the loop calls the builder of the mode on the next pair
BuildCall ==
    /\ bpc = "loop"
    /\ Len(writes) < Len(audio_files)
    /\ \E n \in 1..MaxImages, d \in AudioDurations, images_id \in ImagesIds :
          LET i == Len(writes) + 1
          IN  /\ call' = [audio |-> audio_files[i], n |-> n, d |-> d, key |-> images_id,
                          output |-> SegmentOutput(i)]
              /\ ops' = SegmentOps(mode, audio_files[i], images_id, n, d, SegmentOutput(i))
    /\ writes' = Append(writes, {})
    /\ bpc' = "run"
    /\ UNCHANGED <<detVars, sortVars, pipeVars, batchVars, measVars>>

\* one ffmpeg call, open() or unlink() of the builder
BuildStep ==
    /\ bpc = "run"
    /\ ops # <<>>
    /\ LET o == Head(ops)
       IN  IF Ready(temp, o)
           THEN /\ temp' = Apply(temp, o)
                /\ ops' = Tail(ops)
                /\ writes' = [writes EXCEPT ![Len(writes)] = @ \cup Written(o)]
                /\ UNCHANGED bpc
           ELSE /\ bpc' = "raised"
                /\ UNCHANGED <<temp, ops, writes>>
    /\ UNCHANGED <<mode, pc, result, log, audio_files, image_folders, pairs, segments,
                   out_file, normalized_transition, transition_duration, segment_duration,
                   total_duration, final_concat, processed_record, timeline, enable_parts,
                   call, detVars, sortVars, batchVars, measVars>>

\* lines 294, 337, 562-564: the builder returns True
BuildReturn ==
    /\ bpc = "run"
    /\ ops = <<>>
    /\ bpc' = "loop"
    /\ segments' = Append(segments, call.output)
    /\ UNCHANGED <<mode, pc, result, log, audio_files, image_folders, pairs, temp,
                   out_file, normalized_transition, transition_duration, segment_duration,
                   total_duration, final_concat, processed_record, timeline, enable_parts,
                   call, ops, writes, detVars, sortVars, batchVars,
                   measVars>>

BuildNext == BuildCall \/ BuildStep \/ BuildReturn

-----------------------------------------------------------------------------
(* The batch runner: DriveVideoGenerator.run and process_project *)

MaxProjects == 3

\* The ways create_final_video returns without raising and without a video.
QuietFailures ==
    {"TemplateMissing", "AnchorMissing", "RegionDetectionFailed", "NoAudio", "NoSegments"}

\* How create_final_video can end on a folder whose output file is in state o:
\* the result and the state of output/final_video.mp4 afterwards.
LiveEnds(o) ==
    {<<"Success", "final">>}
    \cup {<<r, o>> : r \in QuietFailures}
    \cup {<<"ToolFailure", o2>> : o2 \in {o, "partial"}}

\* an existence test that also asks how create_final_video ended
OutputOfThisRun(r, o) == r = "Success" /\ o = "final"

\* line 235: output_video.exists()
OutputExists(r, o) == o # "absent"

NoOutcome == [download |-> "none", live |-> "none", upload |-> "none"]

\* lines 397-401 after process_project has returned success, and the loop going on
Finish(success, outcome) ==
    /\ results' = Append(results, [folder_id |-> folder_ids[project], success |-> success])
    /\ outcomes' = Append(outcomes, outcome)
    /\ first_folder' = "None"
    /\ final_video' = "None"
    /\ IF project < Len(folder_ids)
       THEN project' = project + 1 /\ step' = "download"
       ELSE project' = project /\ step' = "summary"

\* lines 377-396: authenticate, read_video_txt, the loop starts
StartRun ==
    /\ step = "start"
    /\ \E authenticated \in BOOLEAN :
          IF ~authenticated \/ folder_ids = <<>>
          THEN step' = "exit1" /\ UNCHANGED project
          ELSE step' = "download" /\ project' = 1
    /\ UNCHANGED <<folder_ids, first_folder, final_video, results, outcomes,
                   detVars, sortVars, pipeVars, buildVars, measVars>>

\* lines 329-337: download_folder_structure returns None, raises, or returns the
\* 1st folder, which may hold output/final_video.mp4 already
Download ==
    /\ step = "download"
    /\ \/ \E how \in {"failed", "raised"} :
             Finish(FALSE, [NoOutcome EXCEPT !.download = how])
       \/ /\ first_folder' \in {"absent", "stale"}
          /\ step' = "live"
          /\ UNCHANGED <<project, final_video, results, outcomes>>
    /\ UNCHANGED <<folder_ids, detVars, sortVars, pipeVars, buildVars, measVars>>

\* lines 339-344 with run_live_py (lines 228-246)
RunLive ==
    /\ step = "live"
    /\ \E end \in LiveEnds(first_folder) :
          IF end[1] # "ToolFailure" /\ OutputExists(end[1], end[2])
          THEN /\ final_video' = end[1]
               /\ first_folder' = end[2]
               /\ step' = "upload"
               /\ UNCHANGED <<project, results, outcomes>>
          ELSE Finish(FALSE, [NoOutcome EXCEPT !.download = "ok", !.live = end[1]])
    /\ UNCHANGED <<folder_ids, detVars, sortVars, pipeVars, buildVars, measVars>>

\* lines 346-357 with upload_to_drive
Upload ==
    /\ step = "upload"
    /\ \E uploaded \in BOOLEAN :
          Finish(uploaded, [download |-> "ok", live |-> final_video,
                            upload |-> IF uploaded THEN "ok" ELSE "failed"])
    /\ UNCHANGED <<folder_ids, detVars, sortVars, pipeVars, buildVars, measVars>>

\* lines 403-424
Summary ==
    /\ step = "summary"
    /\ LET failed == Cardinality({k \in 1..Len(results) : ~results[k].success})
       IN  step' = IF failed > 0 THEN "exit1" ELSE "returned"
    /\ UNCHANGED <<folder_ids, project, first_folder, final_video, results, outcomes,
                   detVars, sortVars, pipeVars, buildVars, measVars>>

BatchNext == StartRun \/ Download \/ RunLive \/ Upload \/ Summary

-----------------------------------------------------------------------------
(* The two measuring passes of create_final_video in Python's arithmetic.   *)
(* A float is a binary64 number: an addition is exact and then rounded to   *)
(* the nearest number of 53 significant binary digits, a tie to the even.   *)
(* Every number here is positive, below 2^20 and a multiple of 2^-60, which *)
(* holds of every binary64 from 2^-7 up.  It is written as four limbs of 20 *)
(* binary digits, the least significant first: three after the point, one   *)
(* before it.  Digit k, counted from 1 at the low end, weighs 2^(k - 61).   *)

Limb == 20

Base == 2 ^ Limb

Limbs == 4

Width == Limb * Limbs

\* the significant digits of a binary64
Mantissa == 53

Million == 1000000

Zero == <<0, 0, 0, 0>>

\* a + b in the reals
ExactSum(a, b) ==
    LET s1 == a[1] + b[1]
        s2 == a[2] + b[2] + (s1 \div Base)
        s3 == a[3] + b[3] + (s2 \div Base)
        s4 == a[4] + b[4] + (s3 \div Base)
    IN  <<s1 % Base, s2 % Base, s3 % Base, s4 % Base>>

Digit(a, k) == (a[((k - 1) \div Limb) + 1] \div (2 ^ ((k - 1) % Limb))) % 2

\* the place of the leading digit
Top(a) == IF a = Zero THEN 0 ELSE SetMax({k \in 1..Width : Digit(a, k) = 1})

\* limb l without its c lowest digits
LowCleared(l, c) ==
    IF c <= 0 THEN l ELSE IF c >= Limb THEN 0 ELSE (l \div (2 ^ c)) * (2 ^ c)

\* arithmetic in the reals: every digit is kept
Unrounded(a, sticky) == a

\* round to nearest, ties to even; sticky tells of a remainder below the last digit
Nearest(a, sticky) ==
    LET cut == Top(a) - Mantissa
    IN  IF cut <= 0 THEN a
        ELSE LET below == sticky \/ \E k \in 1..(cut - 1) : Digit(a, k) = 1
                 up == Digit(a, cut) = 1 /\ (below \/ Digit(a, cut + 1) = 1)
                 kept == [j \in 1..Limbs |-> LowCleared(a[j], cut - Limb * (j - 1))]
                 unit == [j \in 1..Limbs |->
                             IF j = (cut \div Limb) + 1 THEN 2 ^ (cut % Limb) ELSE 0]
             IN  IF up THEN ExactSum(kept, unit) ELSE kept

\* x + y on two floats
float_add(x, y) == Nearest(ExactSum(x, y), FALSE)

\* the next ten binary digits of r / 10^6 after the point, and what is left of r
Chunk(r) == [q |-> (r * 1024) \div Million, rem |-> (r * 1024) % Million]

\* line 135: float(result.stdout.strip()) on a decimal of six places, given in microseconds
float(us) ==
    LET c1 == Chunk(us % Million)
        c2 == Chunk(c1.rem)
        c3 == Chunk(c2.rem)
        c4 == Chunk(c3.rem)
        c5 == Chunk(c4.rem)
        c6 == Chunk(c5.rem)
    IN  Nearest(<<c6.q + 1024 * c5.q, c4.q + 1024 * c3.q, c2.q + 1024 * c1.q,
                  us \div Million>>,
                c6.rem # 0)

\* lines 126-139: the probe of a file prints the same for the same file
get_video_duration_float(us) == float(us)

\* line 574, for the segment the first loop is at
FirstPass ==
    /\ mpc = "first"
    /\ seg_index <= Len(stdout)
    /\ f_segment_duration' =
          float_add(f_segment_duration, get_video_duration_float(stdout[seg_index]))
    /\ seg_index' = seg_index + 1
    /\ UNCHANGED <<mpc, stdout, stdout_transition, record_t, f_current_time, f_timeline,
                   f_enable_parts>>
    /\ UNCHANGED <<detVars, sortVars, pipeVars, buildVars, batchVars>>

\* lines 617-619 and 491: the foreground clip is cut at segment_duration; line 633
PrepareLoopingRecord ==
    /\ mpc = "first"
    /\ seg_index > Len(stdout)
    /\ record_t' = f_segment_duration
    /\ mpc' = "second"
    /\ seg_index' = 1
    /\ f_current_time' = Zero
    /\ UNCHANGED <<stdout, stdout_transition, f_segment_duration, f_timeline,
                   f_enable_parts>>
    /\ UNCHANGED <<detVars, sortVars, pipeVars, buildVars, batchVars>>

\* lines 635-643, for the segment the second loop is at
SecondPass ==
    /\ mpc = "second"
    /\ seg_index <= Len(stdout)
    /\ LET seg_duration == get_video_duration_float(stdout[seg_index])
           end == float_add(f_current_time, seg_duration)
           shown == Append(f_timeline, <<f_current_time, end, TRUE>>)
       IN  IF seg_index < Len(stdout) /\ stdout_transition # 0
           THEN LET after == float_add(end, float(stdout_transition))
                IN  /\ f_timeline' = Append(shown, <<end, after, FALSE>>)
                    /\ f_current_time' = after
           ELSE /\ f_timeline' = shown
                /\ f_current_time' = end
    /\ seg_index' = seg_index + 1
    /\ UNCHANGED <<mpc, stdout, stdout_transition, f_segment_duration, record_t,
                   f_enable_parts>>
    /\ UNCHANGED <<detVars, sortVars, pipeVars, buildVars, batchVars>>

\* lines 645-651: the loop is over and the predicate is built
MeasureDone ==
    /\ mpc = "second"
    /\ seg_index > Len(stdout)
    /\ mpc' = "done"
    /\ f_enable_parts' = EnableParts(f_timeline)
    /\ UNCHANGED <<stdout, stdout_transition, seg_index, f_segment_duration, record_t,
                   f_current_time, f_timeline>>
    /\ UNCHANGED <<detVars, sortVars, pipeVars, buildVars, batchVars>>

MeasureNext == FirstPass \/ PrepareLoopingRecord \/ SecondPass \/ MeasureDone

MaxSegments == 3

\* what ffprobe prints for a segment file, in microseconds
SegmentStdouts == {7500000, 8033333, 10066667, 12100000}

\* what ffprobe prints for the transition clip, in microseconds; 0 for no clip
TransitionStdouts == {0, 600000, 2000000}

-----------------------------------------------------------------------------
(* Specifications *)

DetectIdle ==
    /\ img = [width |-> 0, height |-> 0, key |-> <<0, 255, 0>>, bg |-> <<0, 0, 0>>,
              r1 |-> NoRect, r2 |-> NoRect]
    /\ dpc = "idle"
    /\ visited = {}
    /\ stack = <<>>
    /\ region = <<>>
    /\ green_regions = <<>>
    /\ sx = 0
    /\ sy = 0
    /\ regs = NoRegions
    /\ detect_ret = "pending"

SortIdle ==
    /\ items = <<>>
    /\ sorted_items = <<>>
    /\ spc = "idle"

PipeStart ==
    /\ result = "running"
    /\ log = {}
    /\ audio_files = <<>>
    /\ image_folders = <<>>
    /\ pairs = <<>>
    /\ segments = <<>>
    /\ temp = EmptyDir
    /\ normalized_transition = <<>>
    /\ transition_duration = 0
    /\ segment_duration = 0
    /\ total_duration = 0
    /\ final_concat = <<>>
    /\ processed_record = <<>>
    /\ timeline = <<>>
    /\ enable_parts = <<>>

PipeIdle ==
    /\ mode = "video"
    /\ pc = "idle"
    /\ out_file = "absent"
    /\ PipeStart

NoCall == [audio |-> <<>>, n |-> 0, d |-> 0, key |-> <<>>, output |-> SegmentOutput(0)]

BuildIdle ==
    /\ bpc = "idle"
    /\ call = NoCall
    /\ ops = <<>>
    /\ writes = <<>>

BatchIdle ==
    /\ folder_ids = <<>>
    /\ project = 0
    /\ step = "idle"
    /\ first_folder = "None"
    /\ final_video = "None"
    /\ results = <<>>
    /\ outcomes = <<>>

MeasureIdle ==
    /\ mpc = "idle"
    /\ stdout = <<>>
    /\ stdout_transition = 0
    /\ seg_index = 0
    /\ f_segment_duration = <<>>
    /\ record_t = <<>>
    /\ f_current_time = <<>>
    /\ f_timeline = <<>>
    /\ f_enable_parts = <<>>

InitDetect ==
    /\ img \in Templates
    /\ dpc = "begin"
    /\ visited = {}
    /\ stack = <<>>
    /\ region = <<>>
    /\ green_regions = <<>>
    /\ sx = 0
    /\ sy = 0
    /\ regs = NoRegions
    /\ detect_ret = "pending"
    /\ SortIdle
    /\ PipeIdle
    /\ BuildIdle
    /\ BatchIdle
    /\ MeasureIdle

SpecDetect == InitDetect /\ [][DetectStep]_vars

\* the loops of detect_template_regions run on: no iteration waits for anything
SpecDetectFair == SpecDetect /\ WF_vars(DetectStep)

InitSort ==
    /\ DetectIdle
    /\ PipeIdle
    /\ items \in Listings
    /\ sorted_items = <<>>
    /\ spc = "call"
    /\ BuildIdle
    /\ BatchIdle
    /\ MeasureIdle

SpecSort == InitSort /\ [][GetSortedItems]_vars

\* The segment loop of a run whose checks have passed, in either mode
InitBuild ==
    /\ SortIdle
    /\ BatchIdle
    /\ MeasureIdle
    /\ mode \in {"video", "with_template"}
    /\ img = [width |-> 0, height |-> 0, key |-> <<0, 255, 0>>, bg |-> <<0, 0, 0>>,
              r1 |-> NoRect, r2 |-> NoRect]
    /\ dpc = "idle"
    /\ visited = {}
    /\ stack = <<>>
    /\ region = <<>>
    /\ green_regions = <<>>
    /\ sx = 0
    /\ sy = 0
    /\ regs = IF mode = "with_template" THEN BuildRegions ELSE NoRegions
    /\ detect_ret = IF mode = "with_template" THEN "True" ELSE "pending"
    /\ pc = "segments"
    /\ out_file = "absent"
    /\ result = "running"
    /\ log = {}
    /\ audio_files \in BuildListings
    /\ image_folders = get_image_folders(MaxCalls)
    /\ pairs = <<>>
    /\ segments = <<>>
    /\ temp = EmptyDir
    /\ normalized_transition = <<>>
    /\ transition_duration = 0
    /\ segment_duration = 0
    /\ total_duration = 0
    /\ final_concat = <<>>
    /\ processed_record = <<>>
    /\ timeline = <<>>
    /\ enable_parts = <<>>
    /\ bpc = "loop"
    /\ call = NoCall
    /\ ops = <<>>
    /\ writes = <<>>

SpecBuild == InitBuild /\ [][BuildNext]_vars

\* run() on a video.txt of up to MaxProjects links
InitBatch ==
    /\ DetectIdle
    /\ SortIdle
    /\ PipeIdle
    /\ BuildIdle
    /\ MeasureIdle
    /\ folder_ids \in {[k \in 1..n |-> k] : n \in 0..MaxProjects}
    /\ project = 0
    /\ step = "start"
    /\ first_folder = "None"
    /\ final_video = "None"
    /\ results = <<>>
    /\ outcomes = <<>>

SpecBatch == InitBatch /\ [][BatchNext]_vars

\* create_final_video at line 570 in template mode with record.mp4 present: the
\* segments are made and the transition clip, if there is one, has been measured
InitMeasure ==
    /\ DetectIdle
    /\ SortIdle
    /\ PipeIdle
    /\ BuildIdle
    /\ BatchIdle
    /\ mpc = "first"
    /\ stdout \in UNION {[1..n -> SegmentStdouts] : n \in 1..MaxSegments}
    /\ stdout_transition \in TransitionStdouts
    /\ seg_index = 1
    /\ f_segment_duration = Zero
    /\ record_t = <<>>
    /\ f_current_time = Zero
    /\ f_timeline = <<>>
    /\ f_enable_parts = <<>>

SpecMeasure == InitMeasure /\ [][MeasureNext]_vars

\* create_final_video on a base folder whose output folder may hold an earlier video
Init ==
    /\ DetectIdle
    /\ SortIdle
    /\ mode \in {"video", "with_template"}
    /\ pc = "start"
    /\ out_file \in {"absent", "stale"}
    /\ PipeStart
    /\ BuildIdle
    /\ BatchIdle
    /\ MeasureIdle

Next ==
    \/ CheckMode
    \/ DetectStep
    \/ AfterDetect
    \/ ListAssets
    \/ NormalizeTransition
    \/ CreateSegment
    \/ Assemble
    \/ PrepareRecord
    \/ Compose
    \/ Cleanup

Spec == Init /\ [][Next]_vars

-----------------------------------------------------------------------------
(* What a template of two rectangles really contains *)

Area(r) == r[3] * r[4]

RectPixels(r) == {p \in (r[1]..(r[1] + r[3] - 1)) \X (r[2]..(r[2] + r[4] - 1)) : TRUE}

Overlap(a, b) ==
    /\ Area(a) > 0 /\ Area(b) > 0
    /\ a[1] < b[1] + b[3] /\ b[1] < a[1] + a[3]
    /\ a[2] < b[2] + b[4] /\ b[2] < a[2] + a[4]

\* Two rectangles form one 4-connected component when they overlap or share an edge.
Touch(a, b) ==
    /\ Area(a) > 0 /\ Area(b) > 0
    /\ \/ /\ a[1] < b[1] + b[3] /\ b[1] < a[1] + a[3]
          /\ a[2] <= b[2] + b[4] /\ b[2] <= a[2] + a[4]
       \/ /\ a[2] < b[2] + b[4] /\ b[2] < a[2] + a[4]
          /\ a[1] <= b[1] + b[3] /\ b[1] <= a[1] + a[3]

\* The 4-connected key-colored components of the image, as sets of pixels.
Components(im) ==
    IF Touch(im.r1, im.r2) THEN {RectPixels(im.r1) \cup RectPixels(im.r2)}
    ELSE {RectPixels(im.r1), RectPixels(im.r2)} \ {{}}

\* A qualifying region has at least the minimum pixel count.
Qualifying(im) == {c \in Components(im) : Cardinality(c) >= MinRegion}

MainRect == <<regs.main_x, regs.main_y, regs.main_w, regs.main_h>>

AnchorRect == <<regs.anchor_x, regs.anchor_y, regs.anchor_w, regs.anchor_h>>

Larger(im) == IF Area(im.r1) > Area(im.r2) THEN im.r1 ELSE im.r2

Smaller(im) == IF Area(im.r1) > Area(im.r2) THEN im.r2 ELSE im.r1

TwoRectangles(im) ==
    /\ ~Overlap(im.r1, im.r2)
    /\ Area(im.r1) # Area(im.r2)
    /\ Area(Smaller(im)) >= MinRegion

\* C3: on a template with exactly two disjoint key-colored rectangles of areas
\* A1 > A2 >= 100, detection succeeds, main is the A1 rectangle and anchor the A2
\* rectangle, each with the x, y, width and height of the true bounding box.
C3_TrueBoundingBoxes ==
    (dpc = "done" /\ TwoRectangles(img)) =>
        /\ detect_ret = "True"
        /\ MainRect = Larger(img)
        /\ AnchorRect = Smaller(img)

\* C4: on a template with zero or one qualifying key-colored 4-connected region,
\* detection reports failure and sets no region; no component is ever recorded
\* twice, so the regions kept are pairwise disjoint and never outnumber the
\* qualifying components.
C4_FewRegionsFail ==
    /\ Len(green_regions) <= Cardinality(Qualifying(img))
    /\ \A j, k \in 1..Len(green_regions) :
          j # k => Range(green_regions[j]) \cap Range(green_regions[k]) = {}
    /\ (dpc = "done" /\ Cardinality(Qualifying(img)) <= 1) =>
          (detect_ret = "False" /\ regs = NoRegions)

\* A template whose single qualifying region holds several seeds was scanned to the end.
C4_Witness ==
    /\ dpc = "done"
    /\ Cardinality(Qualifying(img)) = 1
    /\ Cardinality({p \in visited : p[1] % Stride = 0 /\ p[2] % Stride = 0}) >= 2
    /\ Len(green_regions) = 1
    /\ detect_ret = "False"

-----------------------------------------------------------------------------
(* Claims on get_sorted_items *)

\* The numeric token of a name: the value of its first maximal run of digits.
RECURSIVE Pow10(_)
Pow10(n) == IF n = 0 THEN 1 ELSE 10 * Pow10(n - 1)

RECURSIVE SumDigits(_, _, _)
SumDigits(name, from, to) ==
    IF from > to THEN 0
    ELSE DigitVal(name[from]) * Pow10(to - from) + SumDigits(name, from + 1, to)

NumericToken(name) ==
    LET starts == {k \in 1..Len(name) : IsDigit(name[k])}
    IN  IF starts = {} THEN 0
        ELSE LET a == SetMin(starts)
                 b == SetMax({k \in a..Len(name) : \A m \in a..k : IsDigit(name[m])})
             IN  SumDigits(name, a, b)

\* C5: get_sorted_items returns its input ordered ascending by the numeric token
\* of the name (0 without one), items of equal key in discovery order; seg2,
\* seg10, seg1 come back as seg1, seg2, seg10.
C5_NumericStableOrder ==
    spc = "returned" =>
        /\ Len(sorted_items) = Len(items)
        /\ \E p \in [1..Len(items) -> 1..Len(items)] :
              /\ \A j, k \in 1..Len(items) : j # k => p[j] # p[k]
              /\ \A k \in 1..Len(items) : sorted_items[k] = items[p[k]]
              /\ \A j, k \in 1..Len(items) : j < k =>
                    \/ NumericToken(sorted_items[j]) < NumericToken(sorted_items[k])
                    \/ /\ NumericToken(sorted_items[j]) = NumericToken(sorted_items[k])
                       /\ p[j] < p[k]
        /\ items = <<Seg2, Seg10, Seg1>> => sorted_items = <<Seg1, Seg2, Seg10>>

\* seg2, seg10, seg1 were sorted into seg1, seg2, seg10.
C5_Witness ==
    /\ spc = "returned"
    /\ items = <<Seg2, Seg10, Seg1>>
    /\ sorted_items = <<Seg1, Seg2, Seg10>>

-----------------------------------------------------------------------------
(* Claims on create_final_video *)

\* The assets have been listed (lines 524-525 were reached).
Listed ==
    /\ pc \notin {"idle", "start", "detect", "assets"} \/ result = "NoAudio"
    /\ result \notin {"TemplateMissing", "AnchorMissing", "RegionDetectionFailed"}

\* The base video has been built.
Assembled == final_concat # <<>>

\* The pairs whose folder held images, in order, with the duration of their segment.
Produced == SelectSeq(pairs, LAMBDA p : p.has_images)

RECURSIVE SumOfDurs(_)
SumOfDurs(ps) == IF ps = <<>> THEN 0 ELSE Head(ps).dur + SumOfDurs(Tail(ps))

IsSegmentSpan(k) == timeline[k][3]

\* C1: in template mode with a foreground clip, the enable predicate is true at
\* t exactly when t lies in [start, end) of a segment span, and false at every t
\* of a transition span (t ranges over the ticks of the video).
C1_HalfOpenWindows ==
    enable_parts # <<>> =>
        \A t \in 0..(total_duration - 1) :
            /\ Enabled(t) <=>
                 \E k \in 1..Len(timeline) :
                    IsSegmentSpan(k) /\ timeline[k][1] <= t /\ t < timeline[k][2]
            /\ \A k \in 1..Len(timeline) :
                 (~IsSegmentSpan(k) /\ timeline[k][1] <= t /\ t < timeline[k][2])
                    => ~Enabled(t)

LoopDone == Assembled \/ result = "NoSegments"

\* C6: with a audio tracks and f image folders, a # f is a warning and nothing
\* more: the loop takes exactly min(a, f) pairs, the k-th pair being the k-th
\* audio track and the k-th image folder in numeric order, and the run is not
\* ended for the mismatch.
C6_MismatchPairsPositionally ==
    LET a == Len(audio_files)
        f == Len(image_folders)
    IN  /\ (Listed /\ a > 0) => ("mismatch" \in log <=> a # f)
        /\ Len(pairs) <= Min(a, f)
        /\ \A k \in 1..Len(pairs) :
              pairs[k].audio = AudioName(k) /\ pairs[k].folder = FolderName(k)
        /\ LoopDone => Len(pairs) = Min(a, f)
        /\ (pc = "done" /\ result = "NoSegments") =>
              \A k \in 1..Len(pairs) : ~pairs[k].has_images
        /\ (Listed /\ a > 0 /\ pc = "done") =>
              result \in {"NoSegments", "ToolFailure", "Success"}

\* Five audio tracks and three image folders gave three segments, with the warning.
C6_Witness ==
    /\ Len(audio_files) = 5
    /\ Len(image_folders) = 3
    /\ "mismatch" \in log
    /\ Len(pairs) = 3
    /\ Len(segments) = 3
    /\ pc = "done"
    /\ result = "Success"

\* C7: with zero audio tracks or zero image folders the run ends in the
\* AssetMissing failure and no file exists at output/final_video afterwards.
C7_NoAssetsIsAssetMissing ==
    (pc = "done" /\ Listed /\ (Len(audio_files) = 0 \/ Len(image_folders) = 0)) =>
        (result = "NoAudio" /\ out_file = "absent")

\* C8: a run ends either succeeded with the output file in place, or failed with
\* no file at output/final_video, not a partial one nor an earlier run's.
C8_OutputIffSuccess ==
    pc = "done" =>
        \/ result = "Success" /\ out_file = "final"
        \/ result # "Success" /\ out_file = "absent"

\* C9: when a run ends in a fatal condition, no intermediate is left in the
\* temp folder.
C9_FailureLeavesNoIntermediates ==
    (pc = "done" /\ result # "Success") => DOMAIN temp = {}

-----------------------------------------------------------------------------
(* Claims on the requirements of template mode *)

\* The run was ended by one of the checks of lines 511-522.
ModeAborted == result \in {"TemplateMissing", "AnchorMissing", "RegionDetectionFailed"}

\* All eight region coordinates hold a value.
RegionsSet == \A c \in DOMAIN regs : regs[c] # None

\* C11: in template mode a missing template, a missing anchor or a failed
\* detection ends the run before the assets are listed, before any segment is
\* built and before any transcoding call writes a file; whenever the run is at
\* or past the segment loop, detection has returned True and all eight region
\* coordinates are set.
C11_TemplateModeAbortsEarly ==
    /\ (mode = "with_template" /\ ModeAborted) =>
          /\ pc = "done"
          /\ audio_files = <<>>
          /\ pairs = <<>>
          /\ segments = <<>>
          /\ normalized_transition = <<>>
          /\ temp = EmptyDir
          /\ out_file \in {"absent", "stale"}
    /\ (mode = "with_template" /\ dpc = "returned" /\ detect_ret = "False") =>
          (pc = "done" /\ result = "RegionDetectionFailed")
    /\ (mode = "with_template" /\ (Listed \/ pairs # <<>> \/ DOMAIN temp # {})) =>
          (detect_ret = "True" /\ RegionsSet)

\* A run in template mode whose template held one region only was ended by the detector.
C11_Witness ==
    /\ mode = "with_template"
    /\ pc = "done"
    /\ result = "RegionDetectionFailed"
    /\ detect_ret = "False"
    /\ regs = NoRegions
    /\ temp = EmptyDir

-----------------------------------------------------------------------------
(* Claims on the foreground clip and the concat list *)

\* The length of the whole timeline, from the durations the segments were created with.
TimelineTotal ==
    SumOfDurs(Produced)
        + (IF normalized_transition # <<>>
           THEN transition_duration * (Len(Produced) - 1) ELSE 0)

\* C13: the foreground clip is prepared with the sum of the segment durations,
\* transitions excluded, in template mode, and with the length of the whole
\* timeline, every transition included, in flat mode.
C13_RecordLength ==
    (processed_record # <<>> /\ Exists(temp, processed_record)) =>
        temp[processed_record] =
            IF mode = "with_template" THEN SumOfDurs(Produced) ELSE TimelineTotal

\* In template mode with a transition and several segments the clip was prepared
\* shorter than the video.
C13_Witness ==
    /\ mode = "with_template"
    /\ pc = "final"
    /\ processed_record # <<>>
    /\ normalized_transition # <<>>
    /\ Len(segments) = 3
    /\ temp[processed_record] = segment_duration
    /\ temp[processed_record] = total_duration - 2 * transition_duration

\* C14: final_concat.txt lists the produced segments in asset order; with a
\* transition clip the one normalized transition stands between every two
\* adjacent segments and nowhere else (n segments, n - 1 transitions); without
\* one the list is the n segments, and the missing clip ends no run.
C14_ConcatInterleaves ==
    /\ Assembled =>
          LET n == Len(segments)
          IN  /\ n = Len(Produced)
              /\ \A j \in 1..n : \A k \in 1..n :
                    j < k => segments[j][3] < segments[k][3]
              /\ IF normalized_transition # <<>>
                 THEN /\ Len(final_concat) = 2 * n - 1
                      /\ \A k \in 1..Len(final_concat) :
                            final_concat[k] = IF k % 2 = 1 THEN segments[(k + 1) \div 2]
                                              ELSE NormalizedTransition
                 ELSE final_concat = segments
    /\ (pc = "done" /\ Listed /\ Len(audio_files) > 0 /\ normalized_transition = <<>>) =>
          result \in {"NoSegments", "ToolFailure", "Success"}
    /\ (pc \in {"record", "final", "cleanup"} /\ normalized_transition = <<>>) =>
          (Assembled /\ final_concat = segments)

\* Three segments and a transition clip gave a list of five lines.
C14_Witness ==
    /\ Assembled
    /\ normalized_transition = NormalizedTransition
    /\ final_concat = <<SegmentOutput(1), NormalizedTransition, SegmentOutput(2),
                        NormalizedTransition, SegmentOutput(3)>>

-----------------------------------------------------------------------------
(* Claims on the enable predicate without transitions *)

\* The timeline holds no transition span.
NoTransitionSpans == \A k \in 1..Len(timeline) : IsSegmentSpan(k)

\* C18: in template mode with a foreground clip, when the timeline holds no
\* transition span (one segment, or no transition clip), the overlay is given
\* the always-true predicate and no per-window time test is emitted.
C18_SimplifiedWhenNoTransitions ==
    (mode = "with_template" /\ processed_record # <<>> /\ timeline # <<>>
       /\ NoTransitionSpans) =>
        enable_parts = <<>>

-----------------------------------------------------------------------------
(* Claims on the life of the intermediates *)

\* The kinds of file create_final_video itself keeps between two of its steps.
RunKinds ==
    {"normalized_transition", "segment", "final_concat", "base_video", "processed_record"}

\* C19: when a run ends in success the temp folder holds no file the run
\* created and the output file is in place; the files of a segment builder call
\* (clips, concat lists, slideshow, anchor loop, template composite) are gone
\* when the call returns, and the final cleanup starts with the segments, the
\* concat list and the normalized transition only.
C19_SuccessLeavesTempEmpty ==
    /\ (pc = "done" /\ result = "Success") => (DOMAIN temp = {} /\ out_file = "final")
    /\ result = "running" => \A f \in DOMAIN temp : f[1] \in RunKinds
    /\ pc = "cleanup" =>
          DOMAIN temp = Range(segments) \cup {FinalConcat}
                          \cup (IF normalized_transition # <<>>
                                THEN {normalized_transition} ELSE {})

\* A flat run with a transition and a foreground clip ended in success, temp empty.
C19_Witness ==
    /\ mode = "video"
    /\ pc = "done"
    /\ result = "Success"
    /\ normalized_transition # <<>>
    /\ processed_record # <<>>
    /\ Len(segments) = 2
    /\ temp = EmptyDir
    /\ out_file = "final"

\* C20: no step opens, probes, concatenates or removes an intermediate that is
\* not in the temp folder then: no run ends on a missing file, the segments,
\* the concat list and the transition are present until the final cleanup (so
\* at the second probe of the segments too), the base video and the processed
\* foreground clip until the composition, and no name is removed twice.
C20_NoUseOfMissingFile ==
    /\ result # "FileNotFound"
    /\ pc \in {"record", "final", "cleanup"} =>
          /\ Range(segments) \subseteq DOMAIN temp
          /\ Exists(temp, FinalConcat)
          /\ normalized_transition # <<>> => Exists(temp, normalized_transition)
    /\ pc \in {"record", "final"} => Exists(temp, BaseOutput)
    /\ (pc = "final" /\ processed_record # <<>>) => Exists(temp, processed_record)
    /\ \A j, k \in 1..Len(segments) : j # k => segments[j] # segments[k]

\* A template run probed its two segments again for the timeline and ended in success.
C20_Witness ==
    /\ mode = "with_template"
    /\ pc = "done"
    /\ result = "Success"
    /\ Len(segments) = 2
    /\ Len(timeline) = 3
    /\ temp = EmptyDir

-----------------------------------------------------------------------------
(* Claims on the segment builders *)

\* The joined video of the flat call under way.
TempVideo == <<"temp_video", Stem(call.audio), 0>>

\* C12: in flat mode, for every audio duration d and image count n >= 1, each
\* per-image clip times n is at least d, the joined video is at least d long,
\* and the segment written by the mux has duration exactly d.
C12_FlatSegmentHasAudioDuration ==
    (mode = "video" /\ call # NoCall) =>
        /\ \A i \in 0..(call.n - 1) :
              Exists(temp, <<"img", Stem(call.audio), i>>) =>
                 temp[<<"img", Stem(call.audio), i>>] * call.n >= call.d
        /\ Exists(temp, TempVideo) => temp[TempVideo] >= call.d
        /\ Exists(temp, call.output) => temp[call.output] = call.d
        /\ (bpc = "loop") => (Exists(temp, call.output) /\ temp[call.output] = call.d)

\* Two clips of 4 frames for a track of 7 gave a video of 8, cut to 7 by the mux.
C12_Witness ==
    /\ mode = "video"
    /\ call.n = 2
    /\ call.d = 7
    /\ Exists(temp, TempVideo)
    /\ temp[TempVideo] = 8
    /\ Exists(temp, call.output)
    /\ temp[call.output] = 7

\* C15: two segment builder calls of a run never write the same name in the
\* temp folder, and within a call no name is written twice.
C15_UniqueIntermediateNames ==
    /\ \A j, k \in 1..Len(writes) : j # k => writes[j] \cap writes[k] = {}
    /\ \A j, k \in 1..Len(ops) :
          (j # k /\ Written(ops[j]) # {}) => Written(ops[j]) # Written(ops[k])
    /\ \A j \in 1..Len(ops) :
          writes # <<>> => Written(ops[j]) \cap writes[Len(writes)] = {}

-----------------------------------------------------------------------------
(* Claims on the batch runner *)

\* The project's download, video generation and upload all succeeded.
AllStepsSucceeded(o) == o.download = "ok" /\ o.live = "Success" /\ o.upload = "ok"

\* Every project is taken once, in order, whatever happened to the ones before.
BatchContinues ==
    /\ Len(results) = Len(outcomes)
    /\ Len(results) <= Len(folder_ids)
    /\ \A k \in 1..Len(results) : results[k].folder_id = folder_ids[k]
    /\ step \in {"download", "live", "upload"} => Len(results) = project - 1
    /\ step \in {"summary", "returned"} => Len(results) = Len(folder_ids)
    /\ (step = "exit1" /\ results # <<>>) => Len(results) = Len(folder_ids)

\* C17: a project that fails at its download, its video generation or its
\* upload is recorded as failed and the batch goes on: the results hold one
\* entry per project of video.txt, in order, and an entry says success exactly
\* when all three steps of that project succeeded.
C17_FailureRecordedBatchContinues ==
    /\ BatchContinues
    /\ \A k \in 1..Len(results) : results[k].success <=> AllStepsSucceeded(outcomes[k])

-----------------------------------------------------------------------------
(* C21: the prepared length of the foreground clip and the windows *)

\* the sum in the reals of column c of the windows
RECURSIVE ColumnSum(_, _)
ColumnSum(parts, c) ==
    IF parts = <<>> THEN Zero
    ELSE ExactSum(Head(parts)[c], ColumnSum(Tail(parts), c))

\* C21: in template mode the length the foreground clip is prepared for equals the
\* sum of the lengths of the windows of the enable predicate, whatever the probe
\* prints for the segment files.  A length is end - start, so the sums are compared
\* as: the ends together = the prepared length and the starts together.
C21_PreparedLengthIsWindowSum ==
    mpc = "done" =>
        ColumnSum(f_enable_parts, 2) = ExactSum(record_t, ColumnSum(f_enable_parts, 1))

\* the values the two passes read for each segment are the same, and added in the
\* same order they give the prepared length
RECURSIVE FloatSum(_, _)
FloatSum(ds, acc) ==
    IF ds = <<>> THEN acc
    ELSE FloatSum(Tail(ds), float_add(acc, float(Head(ds))))

C21_SameReadings ==
    mpc = "done" => record_t = FloatSum(stdout, Zero)

\* without a transition clip the windows follow each other and the sums agree
C21_NoTransitionAgrees ==
    (mpc = "done" /\ stdout_transition = 0) =>
        ColumnSum(f_enable_parts, 2) = ExactSum(record_t, ColumnSum(f_enable_parts, 1))

-----------------------------------------------------------------------------
(* C22: the flood fills end, and record each pixel once *)

\* the fills made so far: the regions kept and the one being filled
Fills == Append(green_regions, region)

RECURSIVE Recorded(_)
Recorded(fills) == IF fills = <<>> THEN 0 ELSE Len(Head(fills)) + Recorded(Tail(fills))

KeyColoredInBounds(c) ==
    /\ 0 <= c[1] /\ c[1] < img.width
    /\ 0 <= c[2] /\ c[2] < img.height
    /\ is_green(pixels(img, c[1], c[2]))

\* no pixel twice within a fill, no pixel in two fills, every pixel recorded is a
\* visited, key-colored pixel of the image, and no more pixels than the image has
RecordedOnce ==
    /\ \A k \in 1..Len(Fills) : Cardinality(Range(Fills[k])) = Len(Fills[k])
    /\ \A j, k \in 1..Len(Fills) : j < k => Range(Fills[j]) \cap Range(Fills[k]) = {}
    /\ \A k \in 1..Len(Fills) : Range(Fills[k]) \subseteq visited
    /\ \A c \in visited : KeyColoredInBounds(c)
    /\ Recorded(Fills) <= Cardinality(visited)
    /\ Cardinality(visited) <= img.width * img.height

\* a step that records a pixel records one that no fill, kept or dropped, has
\* recorded before, in visited and in the region together; nothing leaves visited
AddedOnce ==
    /\ visited \subseteq visited'
    /\ (visited' # visited \/ (dpc = "fill" /\ dpc' = "fill" /\ region' # region)) =>
          \E c \in visited' \ visited :
             /\ visited' = visited \cup {c}
             /\ region' = Append(region, c)

\* C22: for every template image each flood fill ends and the whole scan ends; over
\* all the fills a pixel enters visited and a region at most once, so the regions
\* are pairwise disjoint, hold only key-colored pixels of the image, and the pixels
\* recorded are never more than the image has.
C22_FillsEndAndRecordOnce ==
    /\ []RecordedOnce
    /\ [][AddedOnce]_vars
    /\ (dpc = "fill") ~> (dpc = "scan")
    /\ <>(dpc = "done")

\* the scan is over on an image of two regions, one of them found from a second seed
C22_Witness ==
    /\ dpc = "done"
    /\ Len(green_regions) = 2
    /\ Cardinality(visited) = Len(green_regions[1]) + Len(green_regions[2])
    /\ Cardinality(visited) < img.width * img.height

====
